---- MODULE Spec2Model ----
(***************************************************************************)
(* A model of the hyrcania olive-oil spectroscopy package:                 *)
(*   domain/models/quality.py      QualityMetrics, QualityThreshold        *)
(*   domain/models/spectrum.py     SpectralData, Spectrum                  *)
(*   domain/models/measurement.py  Measurement                             *)
(*   infrastructure/data_sources   FluorescenceStrategy, AbsorptionStrategy*)
(*                                 SpectroscopyStrategy,                   *)
(*                                 SpectroscopyDataSourceFactory           *)
(*                                                                         *)
(* Every operation of these classes is a call on value objects: the state  *)
(* of the model is the last call (its name, its arguments, what it         *)
(* returned or raised), and the registry of the factory, the one object    *)
(* that calls change, with the registrations made so far.  Python floats   *)
(* are modelled as exact fixed-point numbers: an indicator value v stands  *)
(* for v / FloatScale, a sub-score s for s / SubUnit points and an overall *)
(* score for                                                               *)
(* s / (SubUnit * MeanFactor) points, scales at which every division of    *)
(* the scoring code is exact.                                              *)
(***************************************************************************)
EXTENDS Integers, Sequences, FiniteSets, TLC

VARIABLES call, arg, ret, strategies, registrations

vars == <<call, arg, ret, strategies, registrations>>

(***************************************************************************)
(* Python values.                                                          *)
(***************************************************************************)
\* Optional[x]: None is the empty tuple, a present value v is <<v>>.
None == <<>>

Some(v) == <<v>>

Val(x) == x[1]

\* What a call gave back: a value, or the exception it raised.
Return(v) == [raised |-> "none", value |-> v]

Raise(e) == [raised |-> e, value |-> None]

Max(a, b) == IF a >= b THEN a ELSE b

RECURSIVE SeqSum(_)
SeqSum(s) == IF s = <<>> THEN 0 ELSE s[1] + SeqSum(Tail(s))

(***************************************************************************)
(* Fixed-point scales.                                                     *)
(***************************************************************************)
\* Indicator values are held in hundredths (acidity 0.4 is 40).
FloatScale == 100

\* Sub-scores are held in 1/1100 of a point: 1100 = lcm(4, 100, 25, 11),
\* the denominators of 20/0.8, 20/20, 20/2.5 and 20/0.22 in hundredths.
SubUnit == 1100

\* sum(scores) / len(scores) with len in 1..6 is exact in 1/60 sub-units.
MeanFactor == 60

\* One point of overall score.
Point == SubUnit * MeanFactor

(***************************************************************************)
(* quality.py: QualityMetrics.calculate_overall_score                      *)
(***************************************************************************)
ACIDITY_MAX == 80

PEROXIDE_MAX == 2000

K232_MAX == 250

K270_MAX == 22

ACIDITY_RATE == 50

PEROXIDE_RATE == 2

K232_RATE == 20

K270_RATE == 200

\* 100 - (x / limit) * 20
BelowScore(x, limit) == 100 * SubUnit - (x * 20 * SubUnit) \div limit

AboveScoreFrom85(x, limit, rate) ==
    85 * SubUnit - ((x - limit) * rate * SubUnit) \div FloatScale

\* 80 - (x - limit) * rate
AboveScore(x, limit, rate) ==
    80 * SubUnit - ((x - limit) * rate * SubUnit) \div FloatScale

AcidityScoreNoClamp(a) ==
    IF a <= ACIDITY_MAX THEN BelowScore(a, ACIDITY_MAX)
    ELSE AboveScore(a, ACIDITY_MAX, ACIDITY_RATE)

AcidityScore(a) ==
    IF a <= ACIDITY_MAX THEN BelowScore(a, ACIDITY_MAX)
    ELSE Max(0, AboveScore(a, ACIDITY_MAX, ACIDITY_RATE))

PeroxideScoreNoClamp(p) ==
    IF p <= PEROXIDE_MAX THEN BelowScore(p, PEROXIDE_MAX)
    ELSE AboveScore(p, PEROXIDE_MAX, PEROXIDE_RATE)

PeroxideScore(p) ==
    IF p <= PEROXIDE_MAX THEN BelowScore(p, PEROXIDE_MAX)
    ELSE Max(0, AboveScore(p, PEROXIDE_MAX, PEROXIDE_RATE))

K232Score(k) ==
    IF k <= K232_MAX THEN BelowScore(k, K232_MAX)
    ELSE Max(0, AboveScore(k, K232_MAX, K232_RATE))

K270Score(k) ==
    IF k <= K270_MAX THEN BelowScore(k, K270_MAX)
    ELSE Max(0, AboveScore(k, K270_MAX, K270_RATE))

\* A sensory score is appended as it is (here: converted to sub-units).
SensoryScore(s) == (s * SubUnit) \div FloatScale

\* scores.append(x) when the indicator is present
AppendIf(scores, field, x) == IF field # None THEN Append(scores, x) ELSE scores

\* The list `scores` at the return statement; delta_k is never read.
Scores(m) ==
    LET s1 == AppendIf(<<>>, m.acidity, AcidityScore(Val(m.acidity)))
        s2 == AppendIf(s1, m.peroxide_value, PeroxideScore(Val(m.peroxide_value)))
        s3 == AppendIf(s2, m.k232, K232Score(Val(m.k232)))
        s4 == AppendIf(s3, m.k270, K270Score(Val(m.k270)))
        s5 == AppendIf(s4, m.flavor_score, SensoryScore(Val(m.flavor_score)))
        s6 == AppendIf(s5, m.aroma_score, SensoryScore(Val(m.aroma_score)))
    IN  s6

\* sum(scores) / len(scores) if scores else 0.0
MeanOrZero(scores) ==
    IF scores # <<>> THEN (SeqSum(scores) * MeanFactor) \div Len(scores) ELSE 0

calculate_overall_score(m) == MeanOrZero(Scores(m))

(***************************************************************************)
(* quality.py: QualityMetrics.determine_quality_grade                      *)
(***************************************************************************)
GradeOfStrict(overall_score) ==
    IF overall_score > 90 * Point THEN "EXTRA_VIRGIN"
    ELSE IF overall_score > 80 * Point THEN "VIRGIN"
    ELSE IF overall_score > 60 * Point THEN "LAMPANTE"
    ELSE "REFINED"

GradeOf(overall_score) ==
    IF overall_score >= 90 * Point THEN "EXTRA_VIRGIN"
    ELSE IF overall_score >= 80 * Point THEN "VIRGIN"
    ELSE IF overall_score >= 60 * Point THEN "LAMPANTE"
    ELSE "REFINED"

determine_quality_grade(m) == GradeOf(calculate_overall_score(m))

(***************************************************************************)
(* quality.py: QualityThreshold.check_compliance                           *)
(***************************************************************************)
EmptyDict == [k \in {} |-> TRUE]

\* d[key] = v
Put(d, key, v) == [k \in DOMAIN d \cup {key} |-> IF k = key THEN v ELSE d[k]]

PutIf(d, field, key, v) == IF field # None THEN Put(d, key, v) ELSE d

check_compliance_max_sensory(t, m) ==
    LET c1 == PutIf(EmptyDict, m.acidity, "acidity", Val(m.acidity) <= t.max_acidity)
        c2 == PutIf(c1, m.peroxide_value, "peroxide_value",
                    Val(m.peroxide_value) <= t.max_peroxide_value)
        c3 == PutIf(c2, m.k232, "k232", Val(m.k232) <= t.max_k232)
        c4 == PutIf(c3, m.k270, "k270", Val(m.k270) <= t.max_k270)
        c5 == PutIf(c4, m.flavor_score, "flavor",
                    Val(m.flavor_score) <= t.min_flavor_score)
        c6 == PutIf(c5, m.aroma_score, "aroma",
                    Val(m.aroma_score) <= t.min_aroma_score)
    IN  c6

check_compliance(t, m) ==
    LET c1 == PutIf(EmptyDict, m.acidity, "acidity", Val(m.acidity) <= t.max_acidity)
        c2 == PutIf(c1, m.peroxide_value, "peroxide_value",
                    Val(m.peroxide_value) <= t.max_peroxide_value)
        c3 == PutIf(c2, m.k232, "k232", Val(m.k232) <= t.max_k232)
        c4 == PutIf(c3, m.k270, "k270", Val(m.k270) <= t.max_k270)
        c5 == PutIf(c4, m.flavor_score, "flavor",
                    Val(m.flavor_score) >= t.min_flavor_score)
        c6 == PutIf(c5, m.aroma_score, "aroma",
                    Val(m.aroma_score) >= t.min_aroma_score)
    IN  c6

(***************************************************************************)
(* The QualityMetrics and QualityThreshold objects the calls are made on.  *)
(* The dataclasses validate nothing, so negative indicators and sensory    *)
(* scores outside 0..100 are constructible.  Values are in hundredths.     *)
(***************************************************************************)
Opt(S) == {None} \cup {Some(v) : v \in S}

AcidityValues == {-40, 0, 40, 80, 120, 500}

PeroxideValues == {0, 1000, 2000, 2100, 7000}

K232Values == {0, 200, 250, 300}

K270Values == {0, 10, 22, 30}

DeltaKValues == {1}

FlavorValues == {9500, 15000}

AromaValues == {-500, 6000}

QualityMetrics ==
    [acidity : Opt(AcidityValues), peroxide_value : Opt(PeroxideValues),
     k232 : Opt(K232Values), k270 : Opt(K270Values), delta_k : Opt(DeltaKValues),
     flavor_score : Opt(FlavorValues), aroma_score : Opt(AromaValues)]

QualityThresholds ==
    { [grade |-> "EXTRA_VIRGIN", max_acidity |-> 80, max_peroxide_value |-> 2000,
       max_k232 |-> 250, max_k270 |-> 22,
       min_flavor_score |-> 9500, min_aroma_score |-> 6000],
      [grade |-> "LAMPANTE", max_acidity |-> 300, max_peroxide_value |-> 2050,
       max_k232 |-> 260, max_k270 |-> 25,
       min_flavor_score |-> 5000, min_aroma_score |-> 5000] }

(***************************************************************************)
(* Calls on the quality objects.  A behaviour is one call: Idle holds     *)
(* before it, and call, arg and ret record it once it has returned.        *)
(***************************************************************************)
Idle == call = "none"

CallOverallScore ==
    /\ Idle
    /\ UNCHANGED <<strategies, registrations>>
    /\ \E m \in QualityMetrics :
        /\ call' = "calculate_overall_score"
        /\ arg' = [self |-> m]
        /\ ret' = Return(calculate_overall_score(m))

CallQualityGrade ==
    /\ Idle
    /\ UNCHANGED <<strategies, registrations>>
    /\ \E m \in QualityMetrics :
        /\ call' = "determine_quality_grade"
        /\ arg' = [self |-> m]
        /\ ret' = Return(determine_quality_grade(m))

CallCheckCompliance ==
    /\ Idle
    /\ UNCHANGED <<strategies, registrations>>
    /\ \E t \in QualityThresholds, m \in QualityMetrics :
        /\ call' = "check_compliance"
        /\ arg' = [self |-> t, metrics |-> m]
        /\ ret' = Return(check_compliance(t, m))

\* factory.py: the class attribute _strategies as the module is imported.
DefaultStrategies ==
    [t \in {"FLUORESCENCE", "ABSORPTION"} |->
        IF t = "FLUORESCENCE" THEN "FluorescenceStrategy" ELSE "AbsorptionStrategy"]

\* No call has been made; `strategies` is SpectroscopyDataSourceFactory's
\* _strategies and `registrations` the register_strategy calls made so far.
Init ==
    /\ call = "none"
    /\ arg = None
    /\ ret = Return(None)
    /\ strategies = DefaultStrategies
    /\ registrations = <<>>

QualityNext == CallOverallScore \/ CallQualityGrade \/ CallCheckCompliance

QualitySpec == Init /\ [][QualityNext]_vars

(***************************************************************************)
(* Floats held in arrays and data-frame cells.  A float is a number in     *)
(* hundredths (FloatScale) or NaN; a cell of a data frame read from a CSV  *)
(* file is a number, a missing value (NaN) or text that is no number.      *)
(***************************************************************************)
Num(x) == [kind |-> "num", v |-> x]

NaN == [kind |-> "nan", v |-> 0]

Text == [kind |-> "str", v |-> 0]

\* pandas isna
isna(cell) == cell.kind = "nan"

SpectroscopyType == {"FLUORESCENCE", "ABSORPTION", "RAMAN"}

RECURSIVE SelectRows(_, _)
\* col[mask]: the cells of col whose mask entry is TRUE, in row order
SelectRows(col, mask) ==
    IF col = <<>> THEN <<>>
    ELSE IF mask[1] THEN <<col[1]>> \o SelectRows(Tail(col), Tail(mask))
    ELSE SelectRows(Tail(col), Tail(mask))

\* values.astype(float): ValueError on a cell that is no number
astype_float(col) ==
    IF \E k \in 1..Len(col) : col[k].kind = "str" THEN Raise("ValueError")
    ELSE Return(col)

(***************************************************************************)
(* spectrum.py: SpectralData                                               *)
(***************************************************************************)
SpectralDataFields(w, i, t, ex) ==
    [wavelengths |-> w, intensities |-> i, spectroscopy_type |-> t,
     excitation_wavelength |-> ex, emission_wavelength |-> None,
     measurement_conditions |-> None]

SpectralDataAllowEmpty(w, i, t, ex) ==
    IF Len(w) # Len(i) THEN Raise("ValueError")
    ELSE Return(SpectralDataFields(w, i, t, ex))

\* The constructor: the dataclass fields, then __post_init__.
SpectralData(w, i, t, ex) ==
    IF Len(w) # Len(i) THEN Raise("ValueError")
    ELSE IF Len(w) = 0 THEN Raise("ValueError")
    ELSE Return(SpectralDataFields(w, i, t, ex))

RECURSIVE ArrayMin(_)
ArrayMin(a) ==
    IF Len(a) = 1 THEN a[1].v
    ELSE LET m == ArrayMin(Tail(a)) IN IF a[1].v <= m THEN a[1].v ELSE m

RECURSIVE ArrayMax(_)
ArrayMax(a) ==
    IF Len(a) = 1 THEN a[1].v
    ELSE LET m == ArrayMax(Tail(a)) IN IF a[1].v >= m THEN a[1].v ELSE m

HasNaN(a) == \E k \in 1..Len(a) : a[k].kind = "nan"

ArraySum(a) == SeqSum([k \in 1..Len(a) |-> a[k].v])

SumOfSquares(a) == SeqSum([k \in 1..Len(a) |-> a[k].v * a[k].v])

RECURSIVE IsqrtBetween(_, _, _)
IsqrtBetween(n, lo, hi) ==
    IF lo = hi THEN lo
    ELSE LET mid == (lo + hi + 1) \div 2
         IN  IF mid * mid <= n THEN IsqrtBetween(n, mid, hi)
             ELSE IsqrtBetween(n, lo, mid - 1)

\* The integer square root, for std().
Isqrt(n) == IsqrtBetween(n, 0, IF n < 46340 THEN n ELSE 46340)

AllNaN(a) == [k \in 1..Len(a) |-> NaN]

\* (x - min) / (max - min), elementwise; 0/0 and anything with NaN is NaN
MinMax(a) ==
    IF HasNaN(a) \/ ArrayMax(a) = ArrayMin(a) THEN AllNaN(a)
    ELSE [k \in 1..Len(a) |->
             Num(((a[k].v - ArrayMin(a)) * FloatScale)
                     \div (ArrayMax(a) - ArrayMin(a)))]

\* (x - mean) / std, elementwise: with n = len, S = sum and Q = n * sum of
\* squares - S * S, this is (n * x - S) / sqrt(Q)
ZScore(a) ==
    LET n == Len(a)
        S == ArraySum(a)
        Q == n * SumOfSquares(a) - S * S
    IN  IF HasNaN(a) \/ Q = 0 THEN AllNaN(a)
        ELSE [k \in 1..n |-> Num(((n * a[k].v - S) * FloatScale) \div Isqrt(Q))]

\* SpectralData.normalize
normalize(self, method) ==
    IF method \notin {"minmax", "zscore"} THEN Raise("ValueError")
    ELSE SpectralData(self.wavelengths,
                      IF method = "minmax" THEN MinMax(self.intensities)
                      ELSE ZScore(self.intensities),
                      self.spectroscopy_type, self.excitation_wavelength)

(***************************************************************************)
(* spectrum.py: Spectrum; measurement.py: Measurement                      *)
(***************************************************************************)
Spectrum(sd, name, step, sample) ==
    [spectral_data |-> sd, measurement_name |-> name, aging_step |-> step,
     sample_id |-> sample, timestamp |-> None]

MeasurementFields(id, step, t, spectra) ==
    [measurement_id |-> id, aging_step |-> step, spectroscopy_type |-> t,
     spectra |-> spectra, metadata |-> None, timestamp |-> None]

MeasurementFirstTypeOnly(id, step, t, spectra) ==
    IF spectra = <<>> THEN Raise("ValueError")
    ELSE IF spectra[1].spectral_data.spectroscopy_type # t THEN Raise("ValueError")
    ELSE Return(MeasurementFields(id, step, t, spectra))

\* The constructor: the dataclass fields, then __post_init__.
Measurement(id, step, t, spectra) ==
    IF spectra = <<>> THEN Raise("ValueError")
    ELSE IF \E k \in 1..Len(spectra) :
                spectra[k].spectral_data.spectroscopy_type # t
         THEN Raise("ValueError")
    ELSE Return(MeasurementFields(id, step, t, spectra))

(***************************************************************************)
(* fluorescence.py: _extract_excitation_wavelength.  A column name is a    *)
(* sequence of characters.                                                 *)
(***************************************************************************)
EX_MARKER == <<"E", "X", "_">>

DEFAULT_EXCITATION == 30000

Digits == <<"0", "1", "2", "3", "4", "5", "6", "7", "8", "9">>

IsDigit(c) == \E d \in 1..10 : Digits[d] = c

DigitValue(c) == (CHOOSE d \in 1..10 : Digits[d] = c) - 1

RECURSIVE DecimalValue(_)
DecimalValue(ds) ==
    IF ds = <<>> THEN 0
    ELSE DecimalValue(SubSeq(ds, 1, Len(ds) - 1)) * 10 + DigitValue(ds[Len(ds)])

\* The first position at or after `from` where pat occurs in s, 0 if none.
Find(s, pat, from) ==
    LET hits == {k \in from..(Len(s) - Len(pat) + 1) :
                    SubSeq(s, k, k + Len(pat) - 1) = pat}
    IN  IF hits = {} THEN 0 ELSE CHOOSE k \in hits : \A j \in hits : k <= j

\* s.split(pat)[1]: the text between the first occurrence of pat and the next
SecondPart(s, pat) ==
    LET first == Find(s, pat, 1)
        rest == SubSeq(s, first + Len(pat), Len(s))
        next == Find(rest, pat, 1)
    IN  IF next = 0 THEN rest ELSE SubSeq(rest, 1, next - 1)

\* float(text) for text made of a sign, digits, a decimal point and
\* underscores, in hundredths: an underscore is accepted between two digits
\* and ignored; ValueError for any other text (column names here hold no
\* blank, exponent, "inf" or "nan").
float(text) ==
    LET signed == text # <<>> /\ text[1] \in {"-", "+"}
        grouped == IF signed THEN Tail(text) ELSE text
        separators == {k \in 1..Len(grouped) : grouped[k] = "_"}
        body == SelectSeq(grouped, LAMBDA c : c # "_")
        dots == {k \in 1..Len(body) : body[k] = "."}
        dot == IF dots = {} THEN Len(body) + 1 ELSE CHOOSE k \in dots : TRUE
        whole == SubSeq(body, 1, dot - 1)
        frac == SubSeq(body, dot + 1, Len(body))
        frac2 == SubSeq(frac \o <<"0", "0">>, 1, 2)
        magnitude == DecimalValue(whole) * FloatScale + DecimalValue(frac2)
    IN  IF \/ \E k \in separators :
                  \/ k = 1 \/ k = Len(grouped)
                  \/ ~IsDigit(grouped[k - 1]) \/ ~IsDigit(grouped[k + 1])
           \/ Cardinality(dots) > 1
           \/ Len(whole) + Len(frac) = 0
           \/ \E k \in 1..Len(whole) : ~IsDigit(whole[k])
           \/ \E k \in 1..Len(frac) : ~IsDigit(frac[k])
        THEN Raise("ValueError")
        ELSE Return(IF signed /\ text[1] = "-" THEN -magnitude ELSE magnitude)

\* s.split(pat)[-1]: the text after the last occurrence of pat
LastPart(s, pat) ==
    LET hits == {k \in 1..(Len(s) - Len(pat) + 1) :
                    SubSeq(s, k, k + Len(pat) - 1) = pat}
        last == CHOOSE k \in hits : \A j \in hits : j <= k
    IN  SubSeq(s, last + Len(pat), Len(s))

extract_excitation_wavelength_last_part(column_name) ==
    IF Find(column_name, EX_MARKER, 1) # 0
    THEN LET parsed == float(LastPart(column_name, EX_MARKER))
         IN  IF parsed.raised = "none" THEN parsed.value ELSE DEFAULT_EXCITATION
    ELSE DEFAULT_EXCITATION

extract_excitation_wavelength(column_name) ==
    IF Find(column_name, EX_MARKER, 1) # 0
    THEN LET parsed == float(SecondPart(column_name, EX_MARKER))
         IN  IF parsed.raised = "none" THEN parsed.value ELSE DEFAULT_EXCITATION
    ELSE DEFAULT_EXCITATION

(***************************************************************************)
(* fluorescence.py, absorption.py: _extract_spectrum and load_data.  A     *)
(* data frame is its column names and its columns, each a sequence of      *)
(* cells; a file is a data frame, or cannot be read.                       *)
(***************************************************************************)
shape1(df) == Len(df.columns)

extract_spectrum_wavelength_mask(df, col_idx) ==
    IF col_idx + 1 >= shape1(df) THEN Raise("ValueError")
    ELSE LET wavelength_col == df.data[col_idx + 1]
             intensity_col == df.data[col_idx + 2]
             valid_mask == [r \in 1..Len(wavelength_col) |->
                               ~isna(wavelength_col[r])]
             wavelengths == astype_float(SelectRows(wavelength_col, valid_mask))
             intensities == astype_float(SelectRows(intensity_col, valid_mask))
         IN  IF wavelengths.raised # "none" THEN wavelengths
             ELSE IF intensities.raised # "none" THEN intensities
             ELSE Return(<<wavelengths.value, intensities.value>>)

\* _extract_spectrum(df, col_idx); column col_idx is df.data[col_idx + 1]
extract_spectrum(df, col_idx) ==
    IF col_idx + 1 >= shape1(df) THEN Raise("ValueError")
    ELSE LET wavelength_col == df.data[col_idx + 1]
             intensity_col == df.data[col_idx + 2]
             valid_mask == [r \in 1..Len(wavelength_col) |->
                               ~(isna(wavelength_col[r]) \/ isna(intensity_col[r]))]
             wavelengths == astype_float(SelectRows(wavelength_col, valid_mask))
             intensities == astype_float(SelectRows(intensity_col, valid_mask))
         IN  IF wavelengths.raised # "none" THEN wavelengths
             ELSE IF intensities.raised # "none" THEN intensities
             ELSE Return(<<wavelengths.value, intensities.value>>)

\* The SpectralData a strategy builds from an extracted pair.
PairSpectralData(strategy, df, i, pair) ==
    SpectralData(pair[1], pair[2], strategy,
                 IF strategy = "FLUORESCENCE"
                 THEN Some(extract_excitation_wavelength(df.columns[i + 1]))
                 ELSE None)

\* One pass of the loop body for column i: the list after it.
LoadPair(strategy, df, i, spectral_data_list) ==
    LET pair == extract_spectrum(df, i)
    IN  IF pair.raised # "none" THEN spectral_data_list
        ELSE IF Len(pair.value[1]) > 0
        THEN LET sd == PairSpectralData(strategy, df, i, pair.value)
             IN  IF sd.raised # "none" THEN spectral_data_list
                 ELSE Append(spectral_data_list, sd.value)
        ELSE spectral_data_list

RECURSIVE LoadLoopStopAtError(_, _, _, _)
LoadLoopStopAtError(strategy, df, i, spectral_data_list) ==
    IF i >= shape1(df) - 1 THEN spectral_data_list
    ELSE IF extract_spectrum(df, i).raised # "none" THEN spectral_data_list
    ELSE LoadLoopStopAtError(strategy, df, i + 2,
                             LoadPair(strategy, df, i, spectral_data_list))

RECURSIVE LoadLoop(_, _, _, _)
\* for i in range(0, df.shape[1] - 1, 2), from column i on
LoadLoop(strategy, df, i, spectral_data_list) ==
    IF i >= shape1(df) - 1 THEN spectral_data_list
    ELSE LoadLoop(strategy, df, i + 2, LoadPair(strategy, df, i, spectral_data_list))

\* pd.read_csv(file_path, encoding='latin-1', low_memory=False)
read_csv(file) ==
    IF file.readable THEN Return(file.frame) ELSE Raise("Exception")

load_data_stop_at_error(strategy, file) ==
    LET df == read_csv(file)
    IN  IF df.raised # "none" THEN Return(<<>>)
        ELSE Return(LoadLoopStopAtError(strategy, df.value, 0, <<>>))

load_data_propagates(strategy, file) ==
    LET df == read_csv(file)
    IN  IF df.raised # "none" THEN Raise(df.raised)
        ELSE Return(LoadLoop(strategy, df.value, 0, <<>>))

\* load_data of the strategy for `strategy` (FLUORESCENCE or ABSORPTION)
load_data(strategy, file) ==
    LET df == read_csv(file)
    IN  IF df.raised # "none" THEN Return(<<>>)
        ELSE Return(LoadLoop(strategy, df.value, 0, <<>>))

\* The wavelength windows of validate_data, in hundredths of a nanometre.
FLUORESCENCE_RANGE_MIN == 20000

ABSORPTION_RANGE_MIN == 10000

RANGE_MAX == 100000

\* SpectralData.wavelength_range
wavelength_range(data) == <<ArrayMin(data.wavelengths), ArrayMax(data.wavelengths)>>

\* np.any(a < 0): a comparison with NaN is false.
AnyNegative(a) == \E k \in 1..Len(a) : a[k].kind = "num" /\ a[k].v < 0

\* print(line) when `cond` holds.
PrintIf(printed, cond, line) == IF cond THEN Append(printed, line) ELSE printed

\* The warnings one record makes validate_data print.
RecordWarnings(strategy, data) ==
    LET below == IF strategy = "FLUORESCENCE" THEN FLUORESCENCE_RANGE_MIN
                 ELSE ABSORPTION_RANGE_MIN
        range == PrintIf(<<>>, wavelength_range(data)[1] < below
                                   \/ wavelength_range(data)[2] > RANGE_MAX, "range")
        negative == PrintIf(range, AnyNegative(data.intensities), "negative")
    IN  IF strategy = "FLUORESCENCE"
        THEN PrintIf(negative, HasNaN(data.intensities), "nan")
        ELSE negative

\* What validate_data prints: the warnings of the records, in list order.
RECURSIVE validate_data_printed(_, _)
validate_data_printed(strategy, spectral_data) ==
    IF spectral_data = <<>> THEN <<>>
    ELSE RecordWarnings(strategy, Head(spectral_data))
             \o validate_data_printed(strategy, Tail(spectral_data))

validate_data_rejects_warnings(strategy, spectral_data) ==
    IF spectral_data = <<>> THEN Return(FALSE)
    ELSE Return(validate_data_printed(strategy, spectral_data) = <<>>)

\* validate_data of the strategy for `strategy`: the value it returns.
validate_data(strategy, spectral_data) ==
    IF spectral_data = <<>> THEN Return(FALSE)
    ELSE Return(TRUE)

(***************************************************************************)
(* The arrays, spectra, data frames and files the data calls are made on.  *)
(***************************************************************************)
\* Longest array handed to the SpectralData constructor.
MaxPoints == 2

\* Most spectra handed to the Measurement constructor.
MaxSpectra == 2

\* Most columns and rows of a data frame.
MaxCols == 4

MaxRows == 3

\* Most cells of a data frame that are missing or text.
MaxBad == 2

SeqsUpTo(S, n) == UNION {[1..k -> S] : k \in 0..n}

WavelengthValues == {Num(30000), Num(31000)}

IntensityValues == {Num(-100), Num(500), NaN}

\* Every SpectralData the constructor accepts for the arrays above.
SpectralDataObjects ==
    {sd.value : sd \in {x \in {SpectralData(w, i, t, None) :
                                   w \in SeqsUpTo(WavelengthValues, MaxPoints),
                                   i \in SeqsUpTo(IntensityValues, MaxPoints),
                                   t \in SpectroscopyType} : x.raised = "none"}}

\* One Spectrum of each spectroscopy type.
SpectrumOfType(t) ==
    Spectrum(SpectralData(<<Num(30000)>>, <<Num(100)>>, t, None).value,
             "spectrum_0", Some(0), "sample")

SpectrumObjects == {SpectrumOfType(t) : t \in SpectroscopyType}

\* Column names: the wavelength column of pair p is named after the pool,
\* starting at entry `variant`; an intensity column is named "I".
HeaderPool ==
    << <<"N", "0", "_", "E", "X", "_", "3", "5", "0", ".", "0", "0">>,
       <<"W", "a", "v", "e">>,
       <<"N", "0", "_", "E", "X", "_", "a", "b", "c">> >>

ColumnName(c, variant) ==
    IF c % 2 = 0 THEN HeaderPool[((c \div 2 + variant) % Len(HeaderPool)) + 1]
    ELSE <<"I">>

\* The number in row r (from 1) of column c (from 0): wavelengths 300, 310,
\* ... in the even columns and intensities 1.0, 2.0, ... in the odd ones,
\* shifted by 100 and 10 per pair.
CellNumber(c, r) ==
    IF c % 2 = 0 THEN (300 + 100 * (c \div 2) + 10 * (r - 1)) * FloatScale
    ELSE (r + 10 * (c \div 2)) * FloatScale

RECURSIVE SubsetsUpTo(_, _)
\* The subsets of S with at most k elements.
SubsetsUpTo(S, k) ==
    IF k = 0 THEN {{}}
    ELSE LET smaller == SubsetsUpTo(S, k - 1)
         IN  smaller \cup {s \cup {x} : s \in smaller, x \in S}

\* The frame of nc columns and nr rows whose cells at the positions of
\* `bad` are missing or text and whose other cells are numbers.
Frame(nc, nr, bad, variant) ==
    [columns |-> [c \in 1..nc |-> ColumnName(c - 1, variant)],
     data |-> [c \in 1..nc |->
                 [r \in 1..nr |-> IF <<c, r>> \in DOMAIN bad THEN bad[<<c, r>>]
                                  ELSE Num(CellNumber(c - 1, r))]]]

\* The positions of the cells of a frame that may be missing or text.
BadPositions(nc, nr) == SubsetsUpTo((1..nc) \X (1..nr), MaxBad)

Unreadable == [readable |-> FALSE, frame |-> None]

Readable(df) == [readable |-> TRUE, frame |-> df]

\* Longest list handed to validate_data.
MaxRecords == 2

\* Wavelength arrays below both windows, between their lower ends, inside
\* both, and above both.
ValidationWavelengths ==
    {<<Num(5000)>>, <<Num(15000)>>, <<Num(30000)>>, <<Num(30000), Num(110000)>>}

ValidationData(t) ==
    UNION {{SpectralData(w, i, t, None).value : i \in [1..Len(w) -> IntensityValues]} :
               w \in ValidationWavelengths}

\* Most pieces a column name is put together from.
MaxHeaderPieces == 4

\* The pieces of the column names handed to _extract_excitation_wavelength:
\* the marker, its two halves, a digit, a point, a letter and a sign.
HeaderPieces ==
    {EX_MARKER, <<"E", "X">>, <<"_">>, <<"3">>, <<".">>, <<"a">>, <<"-">>}

RECURSIVE Concat(_)
Concat(pieces) ==
    IF pieces = <<>> THEN <<>> ELSE Head(pieces) \o Concat(Tail(pieces))

(***************************************************************************)
(* Calls on the data objects and the loading strategies.                   *)
(***************************************************************************)
CallSpectralData ==
    /\ Idle
    /\ UNCHANGED <<strategies, registrations>>
    /\ \E w \in SeqsUpTo(WavelengthValues, MaxPoints),
          i \in SeqsUpTo(IntensityValues, MaxPoints),
          t \in SpectroscopyType :
        /\ call' = "SpectralData"
        /\ arg' = [wavelengths |-> w, intensities |-> i, spectroscopy_type |-> t]
        /\ ret' = SpectralData(w, i, t, None)

CallNormalize ==
    /\ Idle
    /\ UNCHANGED <<strategies, registrations>>
    /\ \E self \in SpectralDataObjects, method \in {"minmax", "zscore", "l2"} :
        /\ call' = "normalize"
        /\ arg' = [self |-> self, method |-> method]
        /\ ret' = normalize(self, method)

CallMeasurement ==
    /\ Idle
    /\ UNCHANGED <<strategies, registrations>>
    /\ \E t \in SpectroscopyType, spectra \in SeqsUpTo(SpectrumObjects, MaxSpectra) :
        /\ call' = "Measurement"
        /\ arg' = [spectroscopy_type |-> t, spectra |-> spectra]
        /\ ret' = Measurement("measurement", 0, t, spectra)

CallExtractSpectrum ==
    /\ Idle
    /\ UNCHANGED <<strategies, registrations>>
    /\ \E nc \in 1..MaxCols, nr \in 0..MaxRows :
        \E P \in BadPositions(nc, nr) :
            \E bad \in [P -> {NaN, Text}], col_idx \in 0..(MaxCols - 1) :
                LET df == Frame(nc, nr, bad, 0)
                IN  /\ call' = "_extract_spectrum"
                    /\ arg' = [df |-> df, col_idx |-> col_idx]
                    /\ ret' = extract_spectrum(df, col_idx)

CallExtractExcitationWavelength ==
    /\ Idle
    /\ UNCHANGED <<strategies, registrations>>
    /\ \E pieces \in SeqsUpTo(HeaderPieces, MaxHeaderPieces) :
        /\ call' = "_extract_excitation_wavelength"
        /\ arg' = [column_name |-> Concat(pieces)]
        /\ ret' = Return(extract_excitation_wavelength(Concat(pieces)))

\* load_data of `strategy` on `file` has returned.
Loaded(strategy, file) ==
    /\ call' = "load_data"
    /\ arg' = [self |-> strategy, file_path |-> file]
    /\ ret' = load_data(strategy, file)

CallLoadData ==
    /\ Idle
    /\ UNCHANGED <<strategies, registrations>>
    /\ \E strategy \in {"FLUORESCENCE", "ABSORPTION"} :
        \/ Loaded(strategy, Unreadable)
        \/ \E variant \in 0..(Len(HeaderPool) - 1),
                 nc \in 1..MaxCols, nr \in 0..MaxRows :
               \E P \in BadPositions(nc, nr) :
                   \E bad \in [P -> {NaN, Text}] :
                       Loaded(strategy, Readable(Frame(nc, nr, bad, variant)))

CallValidateData ==
    /\ Idle
    /\ UNCHANGED <<strategies, registrations>>
    /\ \E strategy \in {"FLUORESCENCE", "ABSORPTION"} :
        \E spectral_data \in SeqsUpTo(ValidationData(strategy), MaxRecords) :
            /\ call' = "validate_data"
            /\ arg' = [self |-> strategy, spectral_data |-> spectral_data]
            /\ ret' = validate_data(strategy, spectral_data)

DataNext ==
    \/ CallSpectralData
    \/ CallNormalize
    \/ CallMeasurement
    \/ CallExtractSpectrum
    \/ CallExtractExcitationWavelength
    \/ CallLoadData

DataSpec == Init /\ [][DataNext]_vars

(***************************************************************************)
(* factory.py: SpectroscopyDataSourceFactory.  A path is the sequence of   *)
(* its components, each a sequence of characters; a strategy class is      *)
(* named by a string and an instance is a record of its class and its      *)
(* spectroscopy_type attribute.                                            *)
(***************************************************************************)
\* The classes a caller registers: the two of the package and one of its own
\* whose instances are of type RAMAN.
StrategyClasses == {"FluorescenceStrategy", "AbsorptionStrategy", "RamanStrategy"}

\* strategy_class(): the instance the constructor of the class builds
Instantiate(strategy_class) ==
    [class |-> strategy_class,
     spectroscopy_type |->
         IF strategy_class = "FluorescenceStrategy" THEN "FLUORESCENCE"
         ELSE IF strategy_class = "AbsorptionStrategy" THEN "ABSORPTION"
         ELSE "RAMAN"]

create_strategy_default_fluorescence(registry, spectroscopy_type) ==
    IF spectroscopy_type \notin DOMAIN registry
    THEN Return(Instantiate(registry["FLUORESCENCE"]))
    ELSE Return(Instantiate(registry[spectroscopy_type]))

create_strategy(registry, spectroscopy_type) ==
    IF spectroscopy_type \notin DOMAIN registry THEN Raise("ValueError")
    ELSE Return(Instantiate(registry[spectroscopy_type]))

RECURSIVE str(_)
\* str(file_path): the components joined by "/"
str(file_path) ==
    IF file_path = <<>> THEN <<".">>
    ELSE IF Len(file_path) = 1 THEN file_path[1]
    ELSE file_path[1] \o <<"/">> \o str(Tail(file_path))

FLUORESCENCE_WORD == <<"F", "l", "u", "o", "r", "e", "s", "c", "e", "n", "c", "e">>

ABSORPTION_WORD == <<"A", "b", "s", "o", "r", "p", "t", "i", "o", "n">>

create_strategy_from_file_absorption_first(registry, file_path) ==
    IF Find(str(file_path), ABSORPTION_WORD, 1) # 0
    THEN create_strategy(registry, "ABSORPTION")
    ELSE create_strategy(registry, "FLUORESCENCE")

create_strategy_from_file(registry, file_path) ==
    IF Find(str(file_path), FLUORESCENCE_WORD, 1) # 0
    THEN create_strategy(registry, "FLUORESCENCE")
    ELSE IF Find(str(file_path), ABSORPTION_WORD, 1) # 0
    THEN create_strategy(registry, "ABSORPTION")
    ELSE create_strategy(registry, "FLUORESCENCE")

register_strategy_replaces_all(registry, spectroscopy_type, strategy_class) ==
    [t \in {spectroscopy_type} |-> strategy_class]

\* cls._strategies[spectroscopy_type] = strategy_class
register_strategy(registry, spectroscopy_type, strategy_class) ==
    [t \in DOMAIN registry \cup {spectroscopy_type} |->
        IF t = spectroscopy_type THEN strategy_class ELSE registry[t]]

\* Most register_strategy calls of a run.
MaxRegistrations == 2

\* Most components of a path handed to create_strategy_from_file.
MaxPathParts == 2

\* The components of those paths: the two words and the first in lower case.
PathParts ==
    {FLUORESCENCE_WORD, ABSORPTION_WORD,
     <<"f", "l", "u", "o", "r", "e", "s", "c", "e", "n", "c", "e">>}

CallCreateStrategy ==
    \E spectroscopy_type \in SpectroscopyType :
        /\ call' = "create_strategy"
        /\ arg' = [spectroscopy_type |-> spectroscopy_type]
        /\ ret' = create_strategy(strategies, spectroscopy_type)
        /\ UNCHANGED <<strategies, registrations>>

CallCreateStrategyFromFile ==
    \E file_path \in SeqsUpTo(PathParts, MaxPathParts) :
        /\ call' = "create_strategy_from_file"
        /\ arg' = [file_path |-> file_path]
        /\ ret' = create_strategy_from_file(strategies, file_path)
        /\ UNCHANGED <<strategies, registrations>>

CallRegisterStrategy ==
    /\ Len(registrations) < MaxRegistrations
    /\ \E spectroscopy_type \in SpectroscopyType, strategy_class \in StrategyClasses :
        /\ call' = "register_strategy"
        /\ arg' = [spectroscopy_type |-> spectroscopy_type,
                   strategy_class |-> strategy_class]
        /\ ret' = Return(None)
        /\ strategies' = register_strategy(strategies, spectroscopy_type, strategy_class)
        /\ registrations' = Append(registrations, <<spectroscopy_type, strategy_class>>)

FactoryNext ==
    \/ CallCreateStrategy
    \/ CallCreateStrategyFromFile
    \/ CallRegisterStrategy

FactorySpec == Init /\ [][FactoryNext]_vars

(***************************************************************************)
(* base.py: the methods of SpectroscopyStrategy, the base class of         *)
(* FluorescenceStrategy.                                                   *)
(***************************************************************************)
\* measurement.py: the members of the enum AgingStep, in the order of their
\* values 0..9.
AgingStep == <<"STEP_0", "STEP_1", "STEP_2", "STEP_3", "STEP_4",
               "STEP_5", "STEP_6", "STEP_7", "STEP_8", "STEP_9">>

\* AgingStep.value
AgingStepValue(step) == (CHOOSE d \in 1..10 : AgingStep[d] = step) - 1

\* file_path.name: the last component of the path
name(file_path) == IF file_path = <<>> THEN <<>> ELSE file_path[Len(file_path)]

\* The token "AS" followed by digit d.
Token(d) == <<"A", "S", Digits[d + 1]>>

\* The if/elif chain from the test of "AS<d>" on.
RECURSIVE AgingStepFrom(_, _)
AgingStepFrom(text, d) ==
    IF d > 9 THEN AgingStep[1]
    ELSE IF Find(text, Token(d), 1) # 0 THEN AgingStep[d + 1]
    ELSE AgingStepFrom(text, d + 1)

extract_aging_step_whole_path(file_path) == AgingStepFrom(str(file_path), 0)

extract_aging_step(file_path) == AgingStepFrom(name(file_path), 0)

\* file_path.stem: the name without its last suffix; a name that starts
\* with its only point, or ends with a point, has no suffix.
stem(file_path) ==
    LET filename == name(file_path)
        points == {k \in 1..Len(filename) : filename[k] = "."}
        last == CHOOSE k \in points : \A j \in points : j <= k
    IN  IF points = {} THEN filename
        ELSE IF last = 1 \/ last = Len(filename) THEN filename
        ELSE SubSeq(filename, 1, last - 1)

extract_sample_id(file_path) == stem(file_path)

RECURSIVE split(_, _)
\* text.split(sep) for a separator of one character
split(text, sep) ==
    LET hits == {k \in 1..Len(text) : text[k] = sep}
        first == CHOOSE k \in hits : \A j \in hits : k <= j
    IN  IF hits = {} THEN <<text>>
        ELSE <<SubSeq(text, 1, first - 1)>>
                 \o split(SubSeq(text, first + 1, Len(text)), sep)

\* datetime.now().isoformat(): the time of the call
NOW == "now"

\* FluorescenceStrategy.extract_metadata
extract_metadata(file_path) ==
    LET metadata ==
            Put(Put(Put(Put(Put(EmptyDict,
                "file_path", str(file_path)),
                "file_name", name(file_path)),
                "spectroscopy_type", "fluorescence"),
                "timestamp", NOW),
                "aging_step", AgingStepValue(extract_aging_step(file_path)))
        parts == split(name(file_path), "_")
    IN  IF Len(parts) >= 3
        THEN Put(Put(Put(metadata, "date", parts[1]), "time", parts[2]),
                 "sample_code", parts[3])
        ELSE metadata

RECURSIVE DecimalDigits(_)
\* The decimal digits of a natural number, as str() writes them.
DecimalDigits(n) ==
    IF n < 10 THEN <<Digits[n + 1]>>
    ELSE DecimalDigits(n \div 10) \o <<Digits[(n % 10) + 1]>>

\* f"spectrum_{i}"
SpectrumName(i) ==
    <<"s", "p", "e", "c", "t", "r", "u", "m", "_">> \o DecimalDigits(i)

\* The list `spectra` after the loop over enumerate(spectral_data_list).
Spectra(file_path, spectral_data_list, metadata) ==
    [k \in 1..Len(spectral_data_list) |->
        [Spectrum(spectral_data_list[k], SpectrumName(k - 1),
                  Some(AgingStepValue(extract_aging_step(file_path))),
                  Some(extract_sample_id(file_path)))
            EXCEPT !.timestamp = Some(metadata["timestamp"])]]

\* The body of the try block of create_measurement: what it returns or
\* raises.  `self` is a FluorescenceStrategy with its spectroscopy_type
\* attribute; `file` is the file at the path file.path.
CreateMeasurementBody(self, file) ==
    LET spectral_data_list == load_data("FLUORESCENCE", file)
    IN  IF ~validate_data("FLUORESCENCE", spectral_data_list.value).value
        THEN Return(None)
        ELSE LET metadata == extract_metadata(file.path)
                 spectra == Spectra(file.path, spectral_data_list.value, metadata)
                 measurement == Measurement(stem(file.path),
                                            extract_aging_step(file.path),
                                            self.spectroscopy_type, spectra)
             IN  IF measurement.raised # "none" THEN measurement
                 ELSE Return(Some([measurement.value EXCEPT
                                       !.metadata = Some(metadata)]))

create_measurement_propagates(self, file) == CreateMeasurementBody(self, file)

\* create_measurement: the body, and None for any exception it raises.
create_measurement(self, file) ==
    LET body == CreateMeasurementBody(self, file)
    IN  IF body.raised # "none" THEN Return(None) ELSE body

\* The paths create_measurement is called with: "AS7/20_AS3_s.csv", "x" and
\* "AS1.b.csv".
MeasurementPaths ==
    {<<Token(7), <<"2", "0", "_">> \o Token(3) \o <<"_", "s", ".", "c", "s", "v">> >>,
     << <<"x">> >>,
     <<Token(1) \o <<".", "b", ".", "c", "s", "v">> >>}

\* Most cells that are missing or text in a file handed to
\* create_measurement.
MaxFileBad == 1

\* The file at `path` with the content `file`.
At(path, file) == [path |-> path, readable |-> file.readable, frame |-> file.frame]

\* create_measurement of `self` on `file` has returned.
Created(self, file) ==
    /\ call' = "create_measurement"
    /\ arg' = [self |-> self, file_path |-> file]
    /\ ret' = create_measurement(self, file)

CallCreateMeasurement ==
    /\ Idle
    /\ UNCHANGED <<strategies, registrations>>
    /\ \E t \in {"FLUORESCENCE", "RAMAN"}, path \in MeasurementPaths :
        LET self == [class |-> "FluorescenceStrategy", spectroscopy_type |-> t]
        IN  \/ Created(self, At(path, Unreadable))
            \/ \E nc \in 1..MaxCols, nr \in 0..MaxRows :
                   \E P \in SubsetsUpTo((1..nc) \X (1..nr), MaxFileBad) :
                       \E bad \in [P -> {NaN, Text}] :
                           Created(self, At(path, Readable(Frame(nc, nr, bad, 0))))

\* Most pieces a file name is put together from.
MaxNamePieces == 3

\* The pieces of the file names: the ten tokens, "AS", a digit and a letter.
NamePieces == {Token(d) : d \in 0..9} \cup {<<"A", "S">>, <<"5">>, <<"x">>}

\* The directories of the paths: none, or one named "AS7".
Directories == {<<>>, <<Token(7)>>}

CallExtractAgingStep ==
    /\ Idle
    /\ UNCHANGED <<strategies, registrations>>
    /\ \E dir \in Directories, pieces \in SeqsUpTo(NamePieces, MaxNamePieces) :
        /\ call' = "_extract_aging_step"
        /\ arg' = [file_path |-> dir \o <<Concat(pieces)>>]
        /\ ret' = Return(extract_aging_step(dir \o <<Concat(pieces)>>))

StrategyNext ==
    \/ CallValidateData
    \/ CallExtractAgingStep
    \/ CallCreateMeasurement

StrategySpec == Init /\ [][StrategyNext]_vars

(***************************************************************************)
(* Properties of the quality scoring.                                      *)
(***************************************************************************)
NoMetrics ==
    [acidity |-> None, peroxide_value |-> None, k232 |-> None, k270 |-> None,
     delta_k |-> None, flavor_score |-> None, aroma_score |-> None]

\* QualityMetrics(acidity=0.4, peroxide_value=10, k232=2.0, k270=0.1)
ExampleMetrics ==
    [NoMetrics EXCEPT !.acidity = Some(40), !.peroxide_value = Some(1000),
                      !.k232 = Some(200), !.k270 = Some(10)]

Scored == call = "calculate_overall_score" /\ ret.raised = "none"

Graded == call = "determine_quality_grade" /\ ret.raised = "none"

Complied == call = "check_compliance" /\ ret.raised = "none"

\* C1: the example metrics (acidity 0.4, peroxide value 10, k232 2.0,
\* k270 0.1, nothing else) score at least 90 and are graded EXTRA_VIRGIN.
C1_ExampleIsExtraVirgin ==
    /\ Scored /\ arg.self = ExampleMetrics => ret.value >= 90 * Point
    /\ Graded /\ arg.self = ExampleMetrics => ret.value = "EXTRA_VIRGIN"

\* The indicators of m are in their domain: no chemical indicator is
\* negative and each sensory score lies in 0..100.
InDomain(m) ==
    /\ \A f \in {m.acidity, m.peroxide_value, m.k232, m.k270} :
          f # None => Val(f) >= 0
    /\ \A f \in {m.flavor_score, m.aroma_score} :
          f # None => Val(f) >= 0 /\ Val(f) <= 100 * FloatScale

\* C2 as stated: whatever the values of the present indicators, the overall
\* score lies between 0 and 100.
C2_ScoreInRangeForAnyValues ==
    Scored => ret.value >= 0 /\ ret.value <= 100 * Point

\* C2 as amended: when no chemical indicator is negative and every sensory
\* score lies in 0..100, the overall score lies between 0 and 100.
C2_ScoreInRangeInDomain ==
    Scored /\ InDomain(arg.self) => ret.value >= 0 /\ ret.value <= 100 * Point

\* An in-domain call in which acidity 5.0 is clamped to 0 and a sensory
\* score is averaged in.
C2_Witness ==
    /\ Scored /\ InDomain(arg.self)
    /\ arg.self.peroxide_value = Some(7000)
    /\ arg.self.flavor_score = Some(9500)
    /\ arg.self.acidity = None /\ arg.self.k232 = None /\ arg.self.k270 = None
    /\ arg.self.aroma_score = None
    /\ ret.value = (95 * Point) \div 2

AllIndicators ==
    {"acidity", "peroxide_value", "k232", "k270", "delta_k", "flavor_score",
     "aroma_score"}

Present(m) == {f \in AllIndicators : m[f] # None}

\* The sum of the sub-scores of the present indicators other than delta_k.
SubScoreSum(m) ==
      (IF m.acidity # None THEN AcidityScore(Val(m.acidity)) ELSE 0)
    + (IF m.peroxide_value # None THEN PeroxideScore(Val(m.peroxide_value)) ELSE 0)
    + (IF m.k232 # None THEN K232Score(Val(m.k232)) ELSE 0)
    + (IF m.k270 # None THEN K270Score(Val(m.k270)) ELSE 0)
    + (IF m.flavor_score # None THEN SensoryScore(Val(m.flavor_score)) ELSE 0)
    + (IF m.aroma_score # None THEN SensoryScore(Val(m.aroma_score)) ELSE 0)

\* The sub-score of delta_k: by the claim, what a QualityMetrics holding
\* that delta_k alone scores (the mean of its one sub-score).
DeltaKSubScore(m) ==
    IF m.delta_k # None
    THEN calculate_overall_score([NoMetrics EXCEPT !.delta_k = m.delta_k])
    ELSE 0

\* C3: the overall score is the mean of the sub-scores of exactly the
\* present indicators among the seven (delta_k included), so the number it
\* divides by is the number of present indicators; 0.0 when none is present.
C3_MeanOverPresentIndicators ==
    Scored =>
        LET m == arg.self
            n == Cardinality(Present(m))
        IN  IF n = 0 THEN ret.value = 0
            ELSE ret.value * n = SubScoreSum(m) * MeanFactor + DeltaKSubScore(m)

\* C4: the grade is a total function of the overall score s: EXTRA_VIRGIN
\* iff s >= 90, VIRGIN iff 80 <= s < 90, LAMPANTE iff 60 <= s < 80, REFINED
\* iff s < 60; never UNKNOWN; REFINED when no indicator is present.
C4_GradeThresholds ==
    Graded =>
        LET s == calculate_overall_score(arg.self)
            g == ret.value
        IN  /\ g \in {"EXTRA_VIRGIN", "VIRGIN", "LAMPANTE", "REFINED"}
            /\ g = "EXTRA_VIRGIN" <=> s >= 90 * Point
            /\ g = "VIRGIN" <=> s >= 80 * Point /\ s < 90 * Point
            /\ g = "LAMPANTE" <=> s >= 60 * Point /\ s < 80 * Point
            /\ g = "REFINED" <=> s < 60 * Point
            /\ Present(arg.self) \subseteq {"delta_k"} => g = "REFINED"

\* A metrics object scoring exactly 80 (acidity at its threshold) is VIRGIN.
C4_Witness ==
    /\ Graded
    /\ arg.self = [NoMetrics EXCEPT !.acidity = Some(ACIDITY_MAX)]
    /\ calculate_overall_score(arg.self) = 80 * Point
    /\ ret.value = "VIRGIN"

\* The sub-score the claim gives value v (hundredths) of an indicator with
\* the given threshold and rate, in overall-score units.
OnLine(score, v, limit) ==
    /\ (20 * Point) % limit = 0
    /\ score = 100 * Point - v * ((20 * Point) \div limit)

ClampedDecrease(v, limit, rate) ==
    Max(0, 80 * Point - (v - limit) * rate * (Point \div FloatScale))

SubScoreAsClaimed(score, v, limit, rate) ==
    /\ v <= limit => OnLine(score, v, limit)
    /\ v > limit => score = ClampedDecrease(v, limit, rate) /\ score >= 0

Only(m, f) == Present(m) \ {"delta_k"} = {f}

\* C5: each chemical sub-score (read off a metrics object holding that one
\* indicator) lies on the line from 100 at value 0 to 80 at the threshold
\* when the value is at or below the threshold (0.8, 20, 2.5, 0.22), and is
\* 80 - rate * (value - threshold), clamped at 0, above it (rates 50, 2, 20,
\* 200); acidity 5.0 gives exactly 0.
C5_SubScores ==
    Scored =>
        LET m == arg.self
            s == ret.value
        IN  /\ Only(m, "acidity") => SubScoreAsClaimed(s, Val(m.acidity), 80, 50)
            /\ Only(m, "peroxide_value") =>
                   SubScoreAsClaimed(s, Val(m.peroxide_value), 2000, 2)
            /\ Only(m, "k232") => SubScoreAsClaimed(s, Val(m.k232), 250, 20)
            /\ Only(m, "k270") => SubScoreAsClaimed(s, Val(m.k270), 22, 200)
            /\ Only(m, "acidity") /\ m.acidity = Some(500) => s = 0

\* Acidity 5.0 alone scores exactly 0.
C5_Witness ==
    /\ Scored
    /\ arg.self = [NoMetrics EXCEPT !.acidity = Some(500)]
    /\ ret.value = 0

\* The key check_compliance uses for an indicator.
ComplianceKey(f) ==
    CASE f = "flavor_score" -> "flavor"
      [] f = "aroma_score" -> "aroma"
      [] OTHER -> f

CheckedIndicators == AllIndicators \ {"delta_k"}

EntriesAsClaimed(t, m, c) ==
    /\ m.acidity # None => c["acidity"] = (Val(m.acidity) <= t.max_acidity)
    /\ m.peroxide_value # None =>
           c["peroxide_value"] = (Val(m.peroxide_value) <= t.max_peroxide_value)
    /\ m.k232 # None => c["k232"] = (Val(m.k232) <= t.max_k232)
    /\ m.k270 # None => c["k270"] = (Val(m.k270) <= t.max_k270)
    /\ m.flavor_score # None =>
           c["flavor"] = (Val(m.flavor_score) >= t.min_flavor_score)
    /\ m.aroma_score # None =>
           c["aroma"] = (Val(m.aroma_score) >= t.min_aroma_score)

\* C6 as stated: the mapping has an entry for every present indicator,
\* delta_k included, and none for an absent one.
C6_EntryForEveryPresentIndicator ==
    Complied =>
        DOMAIN ret.value = {ComplianceKey(f) : f \in Present(arg.metrics)}

\* C6 as amended: the mapping has one boolean entry for every present
\* indicator among acidity, peroxide_value, k232, k270, flavor and aroma and
\* no other entry (delta_k is never checked); a chemical entry is
\* value <= max bound, a sensory entry is value >= min bound.
C6_EntryForEveryCheckedIndicator ==
    Complied =>
        /\ DOMAIN ret.value =
               {ComplianceKey(f) : f \in Present(arg.metrics) \cap CheckedIndicators}
        /\ \A k \in DOMAIN ret.value : ret.value[k] \in BOOLEAN
        /\ EntriesAsClaimed(arg.self, arg.metrics, ret.value)

\* A check with delta_k present, a failing chemical entry and a passing
\* sensory entry.
C6_Witness ==
    /\ Complied
    /\ arg.metrics.delta_k # None
    /\ DOMAIN ret.value = {"acidity", "flavor"}
    /\ ret.value["acidity"] = FALSE
    /\ ret.value["flavor"] = TRUE

(***************************************************************************)
(* Properties of the data model and of the loading strategies.             *)
(***************************************************************************)
\* len(wavelengths) == len(intensities) > 0
WellFormed(sd) ==
    Len(sd.wavelengths) = Len(sd.intensities) /\ Len(sd.wavelengths) > 0

\* C7: constructing SpectralData succeeds iff wavelengths and intensities
\* have the same length and that length is not 0, and raises ValueError
\* otherwise; every SpectralData built directly, by normalize or by
\* load_data has len(wavelengths) == len(intensities) > 0.
C7_SpectralDataLengths ==
    /\ call = "SpectralData" =>
          LET ok == /\ Len(arg.wavelengths) = Len(arg.intensities)
                    /\ Len(arg.wavelengths) > 0
          IN  /\ ok <=> ret.raised = "none"
              /\ ~ok <=> ret.raised = "ValueError"
              /\ ok => /\ ret.value.wavelengths = arg.wavelengths
                       /\ ret.value.intensities = arg.intensities
                       /\ WellFormed(ret.value)
    /\ call = "normalize" /\ ret.raised = "none" => WellFormed(ret.value)
    /\ call = "load_data" =>
          \A k \in 1..Len(ret.value) : WellFormed(ret.value[k])

\* Two empty sequences: equal lengths, yet ValueError.
C7_Witness ==
    /\ call = "SpectralData"
    /\ arg.wavelengths = <<>> /\ arg.intensities = <<>>
    /\ ret.raised = "ValueError"

\* C8: constructing a Measurement raises ValueError when its spectra are
\* empty or when some spectrum's type differs from the measurement's type,
\* and succeeds otherwise; an existing Measurement holds at least one
\* spectrum and all its spectra share its type.
C8_MeasurementSpectra ==
    call = "Measurement" =>
        LET rejected ==
                \/ arg.spectra = <<>>
                \/ \E k \in 1..Len(arg.spectra) :
                      arg.spectra[k].spectral_data.spectroscopy_type
                          # arg.spectroscopy_type
        IN  /\ rejected <=> ret.raised = "ValueError"
            /\ ~rejected <=> ret.raised = "none"
            /\ ret.raised = "none" =>
                  /\ ret.value.spectra = arg.spectra
                  /\ Len(ret.value.spectra) >= 1
                  /\ \A k \in 1..Len(ret.value.spectra) :
                        ret.value.spectra[k].spectral_data.spectroscopy_type
                            = ret.value.spectroscopy_type

\* Two spectra of which only the second has another type: ValueError.
C8_Witness ==
    /\ call = "Measurement"
    /\ Len(arg.spectra) = 2
    /\ arg.spectra[1].spectral_data.spectroscopy_type = arg.spectroscopy_type
    /\ arg.spectra[2].spectral_data.spectroscopy_type # arg.spectroscopy_type
    /\ ret.raised = "ValueError"

\* The k-th smallest element of a set of numbers.
KthSmallest(S, k) == CHOOSE x \in S : Cardinality({y \in S : y < x}) = k - 1

\* The rows of the pair (col_idx, col_idx + 1) in which both cells are present.
CompleteRows(df, col_idx) ==
    {r \in 1..Len(df.data[col_idx + 1]) :
        /\ df.data[col_idx + 1][r].kind # "nan"
        /\ df.data[col_idx + 2][r].kind # "nan"}

\* C9: when _extract_spectrum returns, its two arrays hold exactly the rows
\* in which both the wavelength and the intensity are present, in row
\* order; they have the same length and hold no missing value.
C9_KeepsCompleteRows ==
    call = "_extract_spectrum" /\ ret.raised = "none" =>
        LET kept == CompleteRows(arg.df, arg.col_idx)
            wavelengths == ret.value[1]
            intensities == ret.value[2]
        IN  /\ Len(wavelengths) = Cardinality(kept)
            /\ Len(intensities) = Len(wavelengths)
            /\ \A k \in 1..Len(wavelengths) :
                  /\ wavelengths[k] = arg.df.data[arg.col_idx + 1][KthSmallest(kept, k)]
                  /\ intensities[k] = arg.df.data[arg.col_idx + 2][KthSmallest(kept, k)]
                  /\ wavelengths[k].kind = "num"
                  /\ intensities[k].kind = "num"

\* Wavelengths [300, 310, 320] with intensities [1.0, 2.0, NaN] give two
\* arrays of length 2.
C9_Witness ==
    /\ call = "_extract_spectrum"
    /\ arg.col_idx = 0
    /\ arg.df.data = << <<Num(30000), Num(31000), Num(32000)>>,
                        <<Num(100), Num(200), NaN>> >>
    /\ ret = Return(<< <<Num(30000), Num(31000)>>, <<Num(100), Num(200)>> >>)

\* The pairs (i, i + 1), i even and i + 1 < n, whose extraction returns
\* with at least one row.
ValidPairs(df) ==
    {i \in 0..(shape1(df) - 2) :
        /\ i % 2 = 0
        /\ extract_spectrum(df, i).raised = "none"
        /\ Len(extract_spectrum(df, i).value[1]) > 0}

\* The record of pair i, which depends on the columns i and i + 1 alone.
RecordOfPair(strategy, df, i) ==
    [wavelengths |-> extract_spectrum(df, i).value[1],
     intensities |-> extract_spectrum(df, i).value[2],
     spectroscopy_type |-> strategy,
     excitation_wavelength |->
         IF strategy = "FLUORESCENCE"
         THEN Some(extract_excitation_wavelength(df.columns[i + 1]))
         ELSE None,
     emission_wavelength |-> None,
     measurement_conditions |-> None]

\* C10: load_data on a readable file returns one SpectralData for each
\* valid pair of columns (i, i + 1), i even and i + 1 < n, in increasing
\* column order; a pair whose extraction raises or keeps no row is skipped
\* and leaves the records of the other pairs and their order as they are.
C10_OneRecordPerValidPair ==
    call = "load_data" /\ arg.file_path.readable =>
        LET df == arg.file_path.frame
            pairs == ValidPairs(df)
        IN  /\ ret.raised = "none"
            /\ Len(ret.value) = Cardinality(pairs)
            /\ \A k \in 1..Len(ret.value) :
                  ret.value[k] = RecordOfPair(arg.self, df, KthSmallest(pairs, k))

\* A file of four columns whose first pair raises and whose second pair
\* gives the only record.
C10_Witness ==
    /\ call = "load_data" /\ arg.file_path.readable
    /\ shape1(arg.file_path.frame) = 4
    /\ extract_spectrum(arg.file_path.frame, 0).raised = "ValueError"
    /\ Len(ret.value) = 1
    /\ ret.value[1].wavelengths = extract_spectrum(arg.file_path.frame, 2).value[1]

\* C11: load_data of either strategy never raises to its caller, and on a
\* file that cannot be read or parsed at all it returns the empty list.
C11_LoadDataNeverRaises ==
    call = "load_data" =>
        /\ ret.raised = "none"
        /\ (~arg.file_path.readable => ret.value = <<>>)

\* load_data has returned the empty list for a file read_csv raised on.
C11_Witness ==
    /\ call = "load_data"
    /\ ~arg.file_path.readable
    /\ read_csv(arg.file_path).raised = "Exception"
    /\ ret = Return(<<>>)

\* C12: validate_data of either strategy returns False exactly for the
\* empty list; every non-empty list gives True, whatever warnings about
\* range, negative values or NaN its records make the call print.
C12_ValidateDataFalseIffEmpty ==
    call = "validate_data" =>
        /\ ret.raised = "none"
        /\ ret.value \in BOOLEAN
        /\ (ret.value = FALSE <=> arg.spectral_data = <<>>)

\* A fluorescence list whose records printed all three kinds of warning was
\* found valid.
C12_Witness ==
    /\ call = "validate_data" /\ arg.self = "FLUORESCENCE"
    /\ {"range", "negative", "nan"} \subseteq
           {validate_data_printed(arg.self, arg.spectral_data)[k] :
                k \in 1..Len(validate_data_printed(arg.self, arg.spectral_data))}
    /\ ret = Return(TRUE)

\* The positions of column name h where the marker "EX_" starts.
MarkerPositions(h) == {k \in 1..(Len(h) - 2) : <<h[k], h[k + 1], h[k + 2]>> = EX_MARKER}

Least(S) == CHOOSE k \in S : \A j \in S : k <= j

\* The text of h after the marker that starts at position k.
TextAfter(h, k) == SubSeq(h, k + 3, Len(h))

\* The text of h between its first marker and the next marker, or the end
\* of h when there is no other marker.
TextBetweenMarkers(h) ==
    LET first == Least(MarkerPositions(h))
        later == {k \in MarkerPositions(h) : k > first}
    IN  SubSeq(h, first + 3, IF later = {} THEN Len(h) ELSE Least(later) - 1)

ExcitationOfEveryRecord ==
    call = "load_data" /\ arg.self = "FLUORESCENCE" =>
        \A k \in 1..Len(ret.value) : ret.value[k].excitation_wavelength # None

\* C13 as stated: _extract_excitation_wavelength never raises; when a marker
\* "EX_" of the column name is followed by text that parses as a number the
\* call returns that number, and when there is no marker or no marker is
\* followed by such text it returns 300.0; every record of the fluorescence
\* load_data has an excitation wavelength.
C13_NumberAfterMarker ==
    /\ call = "_extract_excitation_wavelength" =>
        LET h == arg.column_name
            parsing == {k \in MarkerPositions(h) : float(TextAfter(h, k)).raised = "none"}
        IN  /\ ret.raised = "none"
            /\ \A k \in parsing : ret.value = float(TextAfter(h, k)).value
            /\ (parsing = {} => ret.value = DEFAULT_EXCITATION)
    /\ ExcitationOfEveryRecord

\* C13: _extract_excitation_wavelength never raises; for a column name with
\* a marker "EX_" it parses the text between the first marker and the next
\* marker (or the end of the name) and returns that number, and when there
\* is no marker or that text is not a number it returns 300.0; every record
\* of the fluorescence load_data has an excitation wavelength.
C13_NumberBetweenMarkers ==
    /\ call = "_extract_excitation_wavelength" =>
        LET h == arg.column_name
        IN  /\ ret.raised = "none"
            /\ IF MarkerPositions(h) = {} THEN ret.value = DEFAULT_EXCITATION
               ELSE IF float(TextBetweenMarkers(h)).raised = "none"
                    THEN ret.value = float(TextBetweenMarkers(h)).value
                    ELSE ret.value = DEFAULT_EXCITATION
    /\ ExcitationOfEveryRecord

\* The column name "EX_3EX_a": the number 3.0 between its two markers was
\* returned, not the 300.0 of a name whose text after the marker is no number.
C13_Witness ==
    /\ call = "_extract_excitation_wavelength"
    /\ arg.column_name = <<"E", "X", "_", "3", "E", "X", "_", "a">>
    /\ float(TextAfter(arg.column_name, 1)).raised = "ValueError"
    /\ ret = Return(3 * FloatScale)

\* C14: with the default registry create_strategy(t) returns a strategy
\* whose spectroscopy_type is t for FLUORESCENCE and ABSORPTION, and raises
\* ValueError for RAMAN, which has no registered strategy.
C14_DefaultRegistry ==
    call = "create_strategy" /\ strategies = DefaultStrategies =>
        IF arg.spectroscopy_type \in {"FLUORESCENCE", "ABSORPTION"}
        THEN /\ ret.raised = "none"
             /\ ret.value.spectroscopy_type = arg.spectroscopy_type
        ELSE ret = Raise("ValueError")

\* Before any registration create_strategy(ABSORPTION) has returned an
\* AbsorptionStrategy.
C14_Witness ==
    /\ call = "create_strategy" /\ registrations = <<>>
    /\ arg.spectroscopy_type = "ABSORPTION"
    /\ ret = Return([class |-> "AbsorptionStrategy", spectroscopy_type |-> "ABSORPTION"])

\* word occurs in text, letter case included.
Contains(text, word) ==
    \E k \in 1..(Len(text) - Len(word) + 1) :
        \A j \in 1..Len(word) : text[k + j - 1] = word[j]

\* The call returned an instance of the class registered for type t.
Selected(t) == ret = Return(Instantiate(strategies[t]))

\* C15: create_strategy_from_file selects the fluorescence strategy when the
\* path string contains "Fluorescence", the absorption strategy when it
\* contains "Absorption" and not "Fluorescence", and the fluorescence
\* strategy when it contains neither; the match is case-sensitive and
\* fluorescence wins when both words occur.
C15_SelectsByWordInPath ==
    call = "create_strategy_from_file" =>
        LET text == str(arg.file_path)
        IN  /\ Contains(text, FLUORESCENCE_WORD) => Selected("FLUORESCENCE")
            /\ Contains(text, ABSORPTION_WORD) /\ ~Contains(text, FLUORESCENCE_WORD)
                   => Selected("ABSORPTION")
            /\ ~Contains(text, ABSORPTION_WORD) /\ ~Contains(text, FLUORESCENCE_WORD)
                   => Selected("FLUORESCENCE")

\* With the default registry the path "Absorption/Fluorescence", which holds
\* both words, gave a FluorescenceStrategy.
C15_Witness ==
    /\ call = "create_strategy_from_file" /\ strategies = DefaultStrategies
    /\ arg.file_path = <<ABSORPTION_WORD, FLUORESCENCE_WORD>>
    /\ ret = Return(Instantiate("FluorescenceStrategy"))

\* The digits d whose token "AS<d>" occurs in the file name of the call, the
\* last component of its path.
TokensOfName ==
    {d \in 0..9 : Contains(arg.file_path[Len(arg.file_path)], Token(d))}

\* C16 as stated: for every digit d whose token "AS<d>" occurs in the file
\* name _extract_aging_step returns step d; a file name with no token gives
\* step 0; the directory is not searched.
C16_StepOfEveryToken ==
    call = "_extract_aging_step" =>
        /\ \A d \in TokensOfName : ret = Return(AgingStep[d + 1])
        /\ (TokensOfName = {} => ret = Return(AgingStep[1]))

\* C16: _extract_aging_step returns the step of the smallest digit d whose
\* token "AS<d>" occurs in the file name; a file name with no token gives
\* step 0; the directory is not searched.
C16_StepOfSmallestToken ==
    call = "_extract_aging_step" =>
        /\ ret.raised = "none"
        /\ (TokensOfName # {} => AgingStepValue(ret.value) = Least(TokensOfName))
        /\ (TokensOfName = {} => ret.value = "STEP_0")

\* The file name "AS3AS1" in the directory "AS7" gave step 1.
C16_Witness ==
    /\ call = "_extract_aging_step"
    /\ arg.file_path = <<Token(7), Token(3) \o Token(1)>>
    /\ ret = Return("STEP_1")

\* The list the strategy's load_data gives for the file of the call.
LoadedList == load_data("FLUORESCENCE", arg.file_path).value

\* A step after load_data fails: the Measurement constructor rejects a
\* spectrum whose type is not the strategy's.
LaterStepFails(loaded) ==
    \E k \in 1..Len(loaded) :
        loaded[k].spectroscopy_type # arg.self.spectroscopy_type

\* C17: create_measurement never raises; it returns None when load_data
\* gives no spectral data or a later step fails, and otherwise a
\* Measurement with one Spectrum per loaded record, in load order, named
\* spectrum_0, spectrum_1, ..., each with the aging step value of the
\* measurement and the type of the strategy; measurement_id and every
\* sample_id are the stem of the file name.
C17_CreateMeasurement ==
    call = "create_measurement" =>
        LET loaded == LoadedList
        IN  /\ ret.raised = "none"
            /\ (ret.value = None <=> loaded = <<>> \/ LaterStepFails(loaded))
            /\ ret.value # None =>
                  LET m == Val(ret.value)
                  IN  /\ Len(m.spectra) = Len(loaded)
                      /\ m.spectroscopy_type = arg.self.spectroscopy_type
                      /\ m.measurement_id = stem(arg.file_path.path)
                      /\ \A k \in 1..Len(m.spectra) :
                            /\ m.spectra[k].spectral_data = loaded[k]
                            /\ m.spectra[k].measurement_name =
                                   <<"s", "p", "e", "c", "t", "r", "u", "m", "_",
                                     Digits[k]>>
                            /\ m.spectra[k].aging_step # None
                            /\ AgingStep[Val(m.spectra[k].aging_step) + 1]
                                   = m.aging_step
                            /\ m.spectra[k].spectral_data.spectroscopy_type
                                   = arg.self.spectroscopy_type
                            /\ m.spectra[k].sample_id = Some(m.measurement_id)

\* The file "AS7/20_AS3_s.csv" gave two records and a Measurement "20_AS3_s"
\* of step 3 with the spectra spectrum_0 and spectrum_1.
C17_Witness ==
    /\ call = "create_measurement" /\ ret.value # None
    /\ Len(LoadedList) = 2
    /\ Val(ret.value).measurement_id = <<"2", "0", "_", "A", "S", "3", "_", "s">>
    /\ Val(ret.value).aging_step = "STEP_3"
    /\ Val(ret.value).spectra[2].measurement_name = SpectrumName(1)
    /\ Val(ret.value).spectra[2].aging_step = Some(3)

\* The class of the last register_strategy call made for type t, the
\* default class of t when no call was made for it, None when there is
\* neither.
LastRegistered(t) ==
    LET calls == {k \in 1..Len(registrations) : registrations[k][1] = t}
    IN  IF calls # {}
        THEN Some(registrations[CHOOSE k \in calls : \A j \in calls : j <= k][2])
        ELSE IF t \in DOMAIN DefaultStrategies THEN Some(DefaultStrategies[t])
        ELSE None

\* C18: after any sequence of register_strategy calls the registry maps
\* every type to the class registered for it last (its default class when
\* none was), so a registration leaves every other type as it was;
\* create_strategy(t) instantiates that class; FLUORESCENCE and ABSORPTION
\* stay registered and create_strategy_from_file never raises ValueError.
C18_LastRegistrationWins ==
    /\ \A t \in SpectroscopyType :
          IF LastRegistered(t) = None THEN t \notin DOMAIN strategies
          ELSE t \in DOMAIN strategies /\ strategies[t] = Val(LastRegistered(t))
    /\ call = "create_strategy" /\ LastRegistered(arg.spectroscopy_type) # None =>
          ret = Return(Instantiate(Val(LastRegistered(arg.spectroscopy_type))))
    /\ {"FLUORESCENCE", "ABSORPTION"} \subseteq DOMAIN strategies
    /\ call = "create_strategy_from_file" => ret.raised = "none"

\* FLUORESCENCE was registered twice, last with RamanStrategy, ABSORPTION
\* never; create_strategy(FLUORESCENCE) has returned a RamanStrategy.
C18_Witness ==
    /\ registrations = << <<"FLUORESCENCE", "AbsorptionStrategy">>,
                          <<"FLUORESCENCE", "RamanStrategy">> >>
    /\ strategies["ABSORPTION"] = "AbsorptionStrategy"
    /\ call = "create_strategy" /\ arg.spectroscopy_type = "FLUORESCENCE"
    /\ ret.raised = "none" /\ ret.value.class = "RamanStrategy"

ChemicalIndicators == {"acidity", "peroxide_value", "k232", "k270"}

\* The values of indicator f the calls are made with.
ValuesOf(f) ==
    CASE f = "acidity" -> AcidityValues
      [] f = "peroxide_value" -> PeroxideValues
      [] f = "k232" -> K232Values
      [] f = "k270" -> K270Values

ThresholdOf(f) ==
    CASE f = "acidity" -> ACIDITY_MAX
      [] f = "peroxide_value" -> PEROXIDE_MAX
      [] f = "k232" -> K232_MAX
      [] f = "k270" -> K270_MAX

RateOf(f) ==
    CASE f = "acidity" -> ACIDITY_RATE
      [] f = "peroxide_value" -> PEROXIDE_RATE
      [] f = "k232" -> K232_RATE
      [] f = "k270" -> K270_RATE

\* The metrics m with indicator f raised: to the next hundredth and to every
\* greater value of its set.
Raised(m, f) ==
    {[m EXCEPT ![f] = Some(v)] :
        v \in {Val(m[f]) + 1} \cup {x \in ValuesOf(f) : x > Val(m[f])}}

GradeRank(grade) ==
    CASE grade = "EXTRA_VIRGIN" -> 3
      [] grade = "VIRGIN" -> 2
      [] grade = "LAMPANTE" -> 1
      [] grade = "REFINED" -> 0

\* C19: each chemical sub-score is non-increasing in its indicator and is
\* exactly 80 at the threshold from both branches, and 80 less a hundredth
\* of the rate a hundredth above the threshold; with the
\* other indicators fixed, raising acidity, peroxide_value, k232 or k270
\* never raises the overall score and never gives a better grade.
C19_RaisingNeverImproves ==
    /\ Scored =>
          \A f \in ChemicalIndicators :
              arg.self[f] # None =>
                  /\ \A raised \in Raised(arg.self, f) :
                        calculate_overall_score(raised) <= ret.value
                  /\ Only(arg.self, f) /\ arg.self[f] = Some(ThresholdOf(f)) =>
                        /\ ret.value = 80 * Point
                        /\ AboveScore(ThresholdOf(f), ThresholdOf(f), RateOf(f))
                               * MeanFactor = ret.value
                        /\ \A raised \in Raised(arg.self, f) :
                              Val(raised[f]) = ThresholdOf(f) + 1 =>
                                  calculate_overall_score(raised)
                                      = ret.value - RateOf(f) * (Point \div FloatScale)
    /\ Graded =>
          \A f \in ChemicalIndicators :
              arg.self[f] # None =>
                  \A raised \in Raised(arg.self, f) :
                      GradeRank(determine_quality_grade(raised)) <= GradeRank(ret.value)

\* Acidity alone at its threshold 0.8 scored 80, and 0.81 scores less.
C19_Witness ==
    /\ Scored /\ Only(arg.self, "acidity")
    /\ arg.self.acidity = Some(ACIDITY_MAX)
    /\ ret.value = 80 * Point
    /\ calculate_overall_score([arg.self EXCEPT !.acidity = Some(ACIDITY_MAX + 1)])
           < ret.value

====
